---- MODULE Spec2Model ----
(***************************************************************************)
(* Model of the solar / meteorological data dashboard (src/app/main.py)    *)
(* and of the notebook helpers (src/notebooks/utils.py).                   *)
(*                                                                         *)
(* One behaviour is one program: either the dashboard script, re-executed  *)
(* from the top on every user interaction, or one call of a helper.        *)
(***************************************************************************)
EXTENDS Integers, Sequences, FiniteSets, TLC

VARIABLES
    prog,                  \* which program this behaviour runs
    pc,                    \* position in the program
    run,                   \* number of the current script run (dashboard)
    uploaded_files,        \* value of st.file_uploader: sequence of file ids
    datasets,              \* the dict `datasets` of main.py
    i,                     \* number of uploaded files the loop has handled
    selected_dataset_name, \* value of the dataset selectbox
    numerical_columns,     \* columns of number dtype, as computed at line 54
    selected_column,       \* value of the outlier selectbox
    min_val,               \* st.number_input minimum
    max_val,               \* st.number_input maximum
    pressed,               \* value of st.button("Clip Outliers") in this run
    timestamp_column,      \* value of the timestamp selectbox
    out,                   \* elements rendered by this run, in order
    clip_log,              \* history: dataset names clipped by earlier runs
    args,                  \* arguments of the helper being called
    ret,                   \* what the helper call left behind
    fs                     \* the data directory manage_data works on

vars == <<prog, pc, run, uploaded_files, datasets, i, selected_dataset_name,
          numerical_columns, selected_column, min_val, max_val, pressed,
          timestamp_column, out, clip_log, args, ret, fs>>

dashVars == <<run, uploaded_files, datasets, i, selected_dataset_name,
              numerical_columns, selected_column, min_val, max_val, pressed,
              timestamp_column, out, clip_log>>

(***************************************************************************)
(* Bounds of the model.                                                    *)
(***************************************************************************)
MaxFiles == 3
MaxRuns == 2
MaxCols == 2
MaxScatter == 3
MaxDatasets == 2
MaxCalls == 2

(***************************************************************************)
(* Cells, series and frames.  A cell is a record [t, v, d]:                *)
(*   num  the number v            nan  a missing number                    *)
(*   str  the v-th text value     dt   a datetime (payload v)              *)
(*   nat  a missing datetime      zsq  sign(v) * sqrt(|v| / d)             *)
(***************************************************************************)
Num(n) == [t |-> "num", v |-> n, d |-> 1]
NaN == [t |-> "nan", v |-> 0, d |-> 1]
Str(k) == [t |-> "str", v |-> k, d |-> 1]
Dt(k) == [t |-> "dt", v |-> k, d |-> 1]
NaT == [t |-> "nat", v |-> 0, d |-> 1]
ZSq(n, m) == [t |-> "zsq", v |-> n, d |-> m]

None == "None"

Range(s) == {s[k] : k \in DOMAIN s}

Min2(a, b) == IF a <= b THEN a ELSE b
Max2(a, b) == IF a >= b THEN a ELSE b
Abs(a) == IF a < 0 THEN -a ELSE a
Sign(a) == IF a < 0 THEN -1 ELSE IF a > 0 THEN 1 ELSE 0

RECURSIVE GCD(_, _)
GCD(a, b) == IF b = 0 THEN a ELSE GCD(b, a % b)

RECURSIVE SeqSum(_)
SeqSum(s) == IF s = <<>> THEN 0 ELSE Head(s) + SeqSum(Tail(s))

EmptyFrame == [cols |-> <<>>, val |-> <<>>]

\* A path that does not exist, and a directory holding the named files.
NoDirectory == [exists |-> FALSE, files |-> {}]
Directory(files) == [exists |-> TRUE, files |-> files]

\* Lists over S of length at most n.
SeqsUpTo(S, n) == UNION {[1..k -> S] : k \in 0..n}

\* DataFrame: column names in order, and the series of each column.
Frame(cols, series) ==
    [cols |-> cols, val |-> [c \in Range(cols) |-> series[CHOOSE k \in DOMAIN cols : cols[k] = c]]]

\* data[col] = series
SetColumn(data, col, series) ==
    [cols |-> IF col \in Range(data.cols) THEN data.cols ELSE Append(data.cols, col),
     val |-> [c \in Range(data.cols) \cup {col} |->
                 IF c = col THEN series ELSE data.val[c]]]

(***************************************************************************)
(* The pandas operations the programs use.                                 *)
(***************************************************************************)

\* A clip that forgets the upper bound.
clip_lower_only(series, lower, upper) ==
    [k \in DOMAIN series |->
        IF series[k].t = "num" /\ series[k].v < Min2(lower, upper)
        THEN Num(Min2(lower, upper)) ELSE series[k]]

\* Series.clip(lower=, upper=) with scalar bounds: pandas orders the two
\* bounds first, then replaces what lies below or above; missing values stay.
clip(series, lower, upper) ==
    LET lo == Min2(lower, upper)
        hi == Max2(lower, upper)
    IN [k \in DOMAIN series |->
          IF series[k].t # "num" THEN series[k]
          ELSE IF series[k].v < lo THEN Num(lo)
          ELSE IF series[k].v > hi THEN Num(hi)
          ELSE series[k]]

\* pd.to_datetime(series): text is parsed, numbers are instants since the
\* epoch, missing values become NaT.
to_datetime(series) ==
    [k \in DOMAIN series |->
        CASE series[k].t \in {"str", "num", "dt"} -> Dt(series[k].v)
          [] OTHER -> NaT]

\* A column read from CSV has a number dtype when every cell is a number or empty.
IsNumber(series) == \A k \in DOMAIN series : series[k].t \in {"num", "nan"}

\* data.select_dtypes(include=["number"]).columns
select_dtypes_number(data) ==
    SelectSeq(data.cols, LAMBDA c : IsNumber(data.val[c]))

\* The payloads of the cells mean() and std() take into account (skipna).
Valid(series) == SelectSeq(series, LAMBDA c : c.t \in {"num", "dt"})
Payloads(series) == [k \in DOMAIN Valid(series) |-> Valid(series)[k].v]

\* n * (x - mean), for the n valid cells of the series: an integer.
Dev(series, x) == Len(Valid(series)) * x - SeqSum(Payloads(series))

\* sum over the valid cells of (n * (x - mean))^2 = n^2 * (n - 1) * std^2
SumSqDev(series) ==
    SeqSum([k \in DOMAIN Valid(series) |->
               Dev(series, Valid(series)[k].v) * Dev(series, Valid(series)[k].v)])

\* The same with the population deviation (ddof = 0) in place of std().
z_scores_population(series) ==
    LET n == Len(Valid(series))
        ss == SumSqDev(series)
    IN [k \in DOMAIN series |->
          IF series[k].t \notin {"num", "dt"} \/ n < 2 \/ ss = 0 THEN NaN
          ELSE LET dv == Dev(series, series[k].v)
                   num == dv * dv * n
                   g == GCD(num, ss)
               IN ZSq(Sign(dv) * (num \div g), ss \div g)]

\* (series - series.mean()) / series.std(), std with ddof = 1.  The quotient
\* of a cell is kept exact as sign * sqrt(num / den) in lowest terms.  It is
\* NaN for a missing cell, when std is NaN (fewer than two valid cells) and
\* when std is 0 (0.0 / 0.0).
z_scores(series) ==
    LET n == Len(Valid(series))
        ss == SumSqDev(series)
    IN [k \in DOMAIN series |->
          IF series[k].t \notin {"num", "dt"} \/ n < 2 \/ ss = 0 THEN NaN
          ELSE LET dv == Dev(series, series[k].v)
                   num == dv * dv * (n - 1)
                   g == GCD(num, ss)
               IN ZSq(Sign(dv) * (num \div g), ss \div g)]

\* The column name f"{column}_zscore".
zscore_name(column) ==
    CASE column = "GHI" -> "GHI_zscore"
      [] column = "WS" -> "WS_zscore"
      [] OTHER -> "Timestamp_zscore"

(***************************************************************************)
(* The files a user can upload.  Two of them share a file name; one does   *)
(* not parse (pd.read_csv raises on it).                                   *)
(***************************************************************************)
FileIds == {1, 2, 3, 4}

FileName(f) ==
    CASE f = 1 -> "a.csv"
      [] f = 2 -> "a.csv"
      [] f = 3 -> "b.csv"
      [] OTHER -> "c.csv"

\* First column text, one number column with a missing value.
FrameA == Frame(<<"Timestamp", "GHI">>,
                <<<<Str(1), Str(2), Str(3)>>, <<Num(-5), NaN, Num(9)>>>>)

\* Number columns only; the second holds one value throughout.
FrameB == Frame(<<"GHI", "WS">>,
                <<<<Num(2), Num(7), Num(3)>>, <<Num(1), Num(1), Num(1)>>>>)

\* No number column at all.
FrameC == Frame(<<"Timestamp">>, <<<<Str(1), Str(2), Str(3)>>>>)

\* pd.read_csv(uploaded_file): the frame, or an exception.
read_csv(f) ==
    CASE f = 1 -> [ok |-> TRUE, data |-> FrameA]
      [] f = 2 -> [ok |-> TRUE, data |-> FrameB]
      [] f = 3 -> [ok |-> FALSE, data |-> EmptyFrame]
      [] OTHER -> [ok |-> TRUE, data |-> FrameC]

\* Sequences of distinct elements of S, of length at most n.
RECURSIVE DistinctSeqs(_, _)
DistinctSeqs(S, n) ==
    IF n = 0 THEN {<<>>}
    ELSE LET shorter == DistinctSeqs(S, n - 1)
         IN shorter \cup
              UNION {{Append(s, x) : x \in S \ Range(s)} : s \in shorter}

\* What the file uploader can hold.
Uploads == DistinctSeqs(FileIds, MaxFiles)

\* The values the two number inputs take (0 is the widget's default).
Inputs == {0, 4}

(***************************************************************************)
(* The dashboard script, src/app/main.py.                                  *)
(***************************************************************************)

\* A Python dict: the keys in insertion order, and the value of each key.
EmptyDict == [keys |-> <<>>, at |-> <<>>]

\* d[k] = x: a key already present keeps its place and loses its old value.
DictSet(dict, k, x) ==
    [keys |-> IF k \in Range(dict.keys) THEN dict.keys ELSE Append(dict.keys, k),
     at |-> [y \in Range(dict.keys) \cup {k} |-> IF y = k THEN x ELSE dict.at[y]]]

\* The dict of the previous run kept instead of a new one.
NewDatasets_stale == datasets

\* datasets = {}
NewDatasets == EmptyDict

\* A selectbox that may also come back empty-handed.
selectbox_or_none(options) == Range(options) \cup {None}

\* st.selectbox(label, options): one of the options, None when there is none.
selectbox(options) == IF options = <<>> THEN {None} ELSE Range(options)

\* Python truth of a selectbox value (a name, or None) and of a list.
Truthy(x) == x # None
NonEmpty(list) == list # <<>>

\* An element the script renders: its kind, the file, dataset or column it
\* names, and the data it was rendered from.
Element(kind, name, data) == [kind |-> kind, name |-> name, data |-> data]

\* The sections with the clip moved below the time series.
Sections_clip_late ==
    <<"preview", "info", "missing", "outlier", "timeseries", "clip", "heatmap",
      "windrose", "histogram", "temp_humidity", "zscore", "bubble">>
\* The sections of the analysis, in the order the script executes them.
Sections ==
    <<"preview", "info", "missing", "outlier", "clip", "timeseries", "heatmap",
      "windrose", "histogram", "temp_humidity", "zscore", "bubble">>

\* The section that follows, "done" after the last.
After(section) ==
    LET k == CHOOSE n \in DOMAIN Sections : Sections[n] = section
    IN IF k = Len(Sections) THEN "done" ELSE Sections[k + 1]

selected_dataset == datasets.at[selected_dataset_name]

InitDashboard ==
    /\ prog = "dashboard"
    /\ pc = "start"
    /\ run = 1
    /\ uploaded_files \in Uploads
    /\ datasets = EmptyDict
    /\ i = 0
    /\ selected_dataset_name = None
    /\ numerical_columns = <<>>
    /\ selected_column = None
    /\ min_val = 0
    /\ max_val = 0
    /\ pressed = FALSE
    /\ timestamp_column = None
    /\ out = <<>>
    /\ clip_log = {}
    /\ args = <<>>
    /\ ret = <<>>
    /\ fs = NoDirectory

\* Line 20 and the else branch, lines 165-166.
Start ==
    /\ prog = "dashboard" /\ pc = "start"
    /\ IF NonEmpty(uploaded_files)
       THEN /\ datasets' = NewDatasets
            /\ pc' = "load"
            /\ out' = out
       ELSE /\ out' = Append(out, Element("info", "Please upload at least one CSV file to proceed.", EmptyFrame))
            /\ pc' = "done"
            /\ datasets' = datasets
    /\ UNCHANGED <<prog, run, uploaded_files, i, selected_dataset_name,
                   numerical_columns, selected_column, min_val, max_val, pressed,
                   timestamp_column, clip_log, args, ret, fs>>

\* One iteration of the upload loop, lines 22-28.
LoadFile ==
    /\ prog = "dashboard" /\ pc = "load" /\ i < Len(uploaded_files)
    /\ LET uploaded_file == uploaded_files[i + 1]
           data == read_csv(uploaded_file)
       IN IF data.ok
          THEN /\ datasets' = DictSet(datasets, FileName(uploaded_file), data.data)
               /\ out' = Append(out, Element("success", FileName(uploaded_file), EmptyFrame))
          ELSE /\ out' = Append(out, Element("error", FileName(uploaded_file), EmptyFrame))
               /\ datasets' = datasets
    /\ i' = i + 1
    /\ UNCHANGED <<prog, pc, run, uploaded_files, selected_dataset_name,
                   numerical_columns, selected_column, min_val, max_val, pressed,
                   timestamp_column, clip_log, args, ret, fs>>

\* Lines 31-36: the dataset selectbox and the test of its value.
Select ==
    /\ prog = "dashboard" /\ pc = "load" /\ i = Len(uploaded_files)
    /\ \E name \in selectbox(datasets.keys) :
          /\ selected_dataset_name' = name
          /\ pc' = IF Truthy(name) THEN Sections[1] ELSE "done"
    /\ UNCHANGED <<prog, run, uploaded_files, datasets, i, numerical_columns,
                   selected_column, min_val, max_val, pressed, timestamp_column,
                   out, clip_log, args, ret, fs>>

\* Lines 38-40: head() of the selected dataset.
Preview ==
    /\ prog = "dashboard" /\ pc = "preview"
    /\ out' = Append(out, Element("preview", selected_dataset_name, selected_dataset))
    /\ pc' = After("preview")
    /\ UNCHANGED <<prog, run, uploaded_files, datasets, i, selected_dataset_name,
                   numerical_columns, selected_column, min_val, max_val, pressed,
                   timestamp_column, clip_log, args, ret, fs>>

\* Lines 42-46: shape and describe().
Info ==
    /\ prog = "dashboard" /\ pc = "info"
    /\ out' = Append(out, Element("describe", selected_dataset_name, selected_dataset))
    /\ pc' = After("info")
    /\ UNCHANGED <<prog, run, uploaded_files, datasets, i, selected_dataset_name,
                   numerical_columns, selected_column, min_val, max_val, pressed,
                   timestamp_column, clip_log, args, ret, fs>>

\* Lines 48-50: isnull().sum().
Missing ==
    /\ prog = "dashboard" /\ pc = "missing"
    /\ out' = Append(out, Element("missing", selected_dataset_name, selected_dataset))
    /\ pc' = After("missing")
    /\ UNCHANGED <<prog, run, uploaded_files, datasets, i, selected_dataset_name,
                   numerical_columns, selected_column, min_val, max_val, pressed,
                   timestamp_column, clip_log, args, ret, fs>>

\* Lines 52-60: the number columns, the outlier selectbox and the box plot.
Outlier ==
    /\ prog = "dashboard" /\ pc = "outlier"
    /\ numerical_columns' = select_dtypes_number(selected_dataset)
    /\ \E column \in selectbox(numerical_columns') :
          /\ selected_column' = column
          /\ out' = IF Truthy(column)
                    THEN Append(out, Element("boxplot", column, selected_dataset))
                    ELSE out
    /\ pc' = After("outlier")
    /\ UNCHANGED <<prog, run, uploaded_files, datasets, i, selected_dataset_name,
                   min_val, max_val, pressed, timestamp_column, clip_log, args, ret, fs>>

\* Lines 62-70, inside `if selected_column:`: the two number inputs and the
\* button; pressed, it clips the column of the selected dataset in place and
\* shows describe() again.
Clip ==
    /\ prog = "dashboard" /\ pc = "clip"
    /\ IF Truthy(selected_column)
       THEN \E lo \in Inputs, hi \in Inputs, button \in BOOLEAN :
              /\ min_val' = lo
              /\ max_val' = hi
              /\ pressed' = button
              /\ IF button
                 THEN LET clipped == SetColumn(selected_dataset, selected_column,
                                         clip(selected_dataset.val[selected_column], lo, hi))
                      IN /\ datasets' = DictSet(datasets, selected_dataset_name, clipped)
                         /\ out' = out \o <<Element("clipped", selected_column, EmptyFrame),
                                            Element("describe_clipped", selected_dataset_name, clipped)>>
                         /\ clip_log' = IF clipped # selected_dataset
                                        THEN clip_log \cup {<<run, selected_dataset_name>>}
                                        ELSE clip_log
                 ELSE UNCHANGED <<datasets, out, clip_log>>
       ELSE UNCHANGED <<min_val, max_val, pressed, datasets, out, clip_log>>
    /\ pc' = After("clip")
    /\ UNCHANGED <<prog, run, uploaded_files, i, selected_dataset_name,
                   numerical_columns, selected_column, timestamp_column, args, ret, fs>>

\* Lines 75-84: two selectboxes; the timestamp column is converted in place,
\* then set_index(timestamp_column)[time_series_column] is plotted.  set_index
\* drops the index column from the columns, so selecting it raises KeyError.
TimeSeries ==
    /\ prog = "dashboard" /\ pc = "timeseries"
    /\ \E time_series_column \in selectbox(numerical_columns),
          ts_column \in selectbox(selected_dataset.cols) :
          /\ timestamp_column' = ts_column
          /\ IF Truthy(time_series_column) /\ Truthy(ts_column)
             THEN LET converted == SetColumn(selected_dataset, ts_column,
                                             to_datetime(selected_dataset.val[ts_column]))
                  IN /\ datasets' = DictSet(datasets, selected_dataset_name, converted)
                     /\ IF time_series_column = ts_column
                        THEN /\ out' = Append(out, Element("exception", "KeyError", EmptyFrame))
                             /\ pc' = "crashed"
                        ELSE /\ out' = Append(out, Element("timeseries", selected_dataset_name, converted))
                             /\ pc' = After("timeseries")
             ELSE /\ UNCHANGED <<datasets, out>>
                  /\ pc' = After("timeseries")
    /\ UNCHANGED <<prog, run, uploaded_files, i, selected_dataset_name,
                   numerical_columns, selected_column, min_val, max_val, pressed,
                   clip_log, args, ret, fs>>

\* A section that draws one chart from columns picked among the number
\* columns, and draws nothing when no column is picked.
Chart(section, kind) ==
    /\ prog = "dashboard" /\ pc = section
    /\ \E column \in selectbox(numerical_columns) :
          out' = IF Truthy(column)
                 THEN Append(out, Element(kind, selected_dataset_name, selected_dataset))
                 ELSE out
    /\ pc' = After(section)
    /\ UNCHANGED <<prog, run, uploaded_files, datasets, i, selected_dataset_name,
                   numerical_columns, selected_column, min_val, max_val, pressed,
                   timestamp_column, clip_log, args, ret, fs>>

\* Lines 86-93: the multiselect starts empty, and nothing is drawn for [].
Heatmap ==
    /\ prog = "dashboard" /\ pc = "heatmap"
    /\ \E correlation_columns \in SUBSET Range(numerical_columns) :
          out' = IF correlation_columns # {}
                 THEN Append(out, Element("heatmap", selected_dataset_name, selected_dataset))
                 ELSE out
    /\ pc' = After("heatmap")
    /\ UNCHANGED <<prog, run, uploaded_files, datasets, i, selected_dataset_name,
                   numerical_columns, selected_column, min_val, max_val, pressed,
                   timestamp_column, clip_log, args, ret, fs>>

\* Lines 95-105.
Windrose == Chart("windrose", "windrose")

\* Lines 107-114.
Histogram == Chart("histogram", "histogram")

\* Lines 116-127.
TempHumidity == Chart("temp_humidity", "scatter")

\* Lines 129-140: the Z-scores of the picked column, drawn as a histogram.
ZScore ==
    /\ prog = "dashboard" /\ pc = "zscore"
    /\ \E z_score_column \in selectbox(numerical_columns) :
          out' = IF Truthy(z_score_column)
                 THEN Append(out, Element("zscore", z_score_column,
                                 Frame(<<zscore_name(z_score_column)>>,
                                       <<z_scores(selected_dataset.val[z_score_column])>>)))
                 ELSE out
    /\ pc' = After("zscore")
    /\ UNCHANGED <<prog, run, uploaded_files, datasets, i, selected_dataset_name,
                   numerical_columns, selected_column, min_val, max_val, pressed,
                   timestamp_column, clip_log, args, ret, fs>>

\* Lines 142-163.
Bubble == Chart("bubble", "bubble")

\* Any interaction with a widget makes Streamlit execute the script again
\* from line 1; the uploader holds whatever the user left in it, the page is
\* drawn anew and every selectbox, input and button is read again.
Rerun ==
    /\ prog = "dashboard" /\ pc \in {"done", "crashed"} /\ run < MaxRuns
    /\ run' = run + 1
    /\ uploaded_files' \in Uploads
    /\ pc' = "start"
    /\ i' = 0
    /\ selected_dataset_name' = None
    /\ numerical_columns' = <<>>
    /\ selected_column' = None
    /\ min_val' = 0
    /\ max_val' = 0
    /\ pressed' = FALSE
    /\ timestamp_column' = None
    /\ out' = <<>>
    /\ UNCHANGED <<prog, datasets, clip_log, args, ret, fs>>

NextDashboard ==
    \/ Start \/ LoadFile \/ Select \/ Preview \/ Info \/ Missing \/ Outlier
    \/ Clip \/ TimeSeries \/ Heatmap \/ Windrose \/ Histogram \/ TempHumidity
    \/ ZScore \/ Bubble \/ Rerun

(***************************************************************************)
(* The notebook helpers, src/notebooks/utils.py.  A helper call is one     *)
(* action: from "call" with its arguments to "returned" or "raised".       *)
(***************************************************************************)

\* While a helper runs there is no dashboard.
NoDashboard ==
    /\ run = 0
    /\ uploaded_files = <<>>
    /\ datasets = EmptyDict
    /\ i = 0
    /\ selected_dataset_name = None
    /\ numerical_columns = <<>>
    /\ selected_column = None
    /\ min_val = 0
    /\ max_val = 0
    /\ pressed = FALSE
    /\ timestamp_column = None
    /\ out = <<>>
    /\ clip_log = {}

\* The frames the notebooks pass to the helpers.  The first has a column
\* with a missing value and a column with a single value present; the second
\* has a column holding one value throughout.
Notebook1 == Frame(<<"GHI", "WS">>,
                   <<<<Num(-5), NaN, Num(9)>>, <<Num(3), NaN, NaN>>>>)
Notebook2 == Frame(<<"GHI", "WS">>,
                   <<<<Num(2), Num(7), Num(3)>>, <<Num(1), Num(1), Num(1)>>>>)
NotebookFrames == {Notebook1, Notebook2}
NotebookColumns == {"GHI", "WS"}

\* clip_outliers, lines 54-68: zip stops at the shorter list; each pair
\* replaces its column by the clipped column, in list order.
RECURSIVE clip_outliers(_, _, _)
clip_outliers(data, columns, valid_range) ==
    IF columns = <<>> \/ valid_range = <<>> THEN data
    ELSE LET col == Head(columns)
             lo == Head(valid_range)[1]
             hi == Head(valid_range)[2]
         IN clip_outliers(SetColumn(data, col, clip(data.val[col], lo, hi)),
                          Tail(columns), Tail(valid_range))

InitClipOutliers ==
    /\ prog = "clip_outliers"
    /\ pc = "call"
    /\ args \in [data : NotebookFrames,
                 columns : SeqsUpTo(NotebookColumns, MaxCols),
                 valid_range : SeqsUpTo(Inputs \X Inputs, MaxCols)]
    /\ ret = <<>>
    /\ fs = NoDirectory
    /\ NoDashboard

ClipOutliers ==
    /\ prog = "clip_outliers" /\ pc = "call"
    /\ ret' = [status |-> "returned",
               data |-> clip_outliers(args.data, args.columns, args.valid_range)]
    /\ pc' = "returned"
    /\ UNCHANGED <<prog, args, fs, dashVars>>

\* plt.subplots(nrows, ncols) with squeeze: one Axes object for a 1 x 1
\* grid, a one-dimensional array when one side is 1, else a grid; it raises
\* ValueError when a side is 0.
subplots(nrows, ncols) ==
    IF nrows = 0 \/ ncols = 0 THEN "ValueError"
    ELSE IF nrows = 1 /\ ncols = 1 THEN "Axes"
    ELSE IF nrows = 1 \/ ncols = 1 THEN "array1d"
    ELSE "array2d"

\* itertools.combinations(columns, 2): the pairs of positions a < b, in
\* lexicographic order.
RECURSIVE combinations2(_)
combinations2(columns) ==
    IF Len(columns) < 2 THEN <<>>
    ELSE [k \in 1..(Len(columns) - 1) |-> <<Head(columns), columns[k + 1]>>]
         \o combinations2(Tail(columns))

\* plot_scatter, lines 158-178: the scatter plots drawn, each with the axis
\* it is drawn on.  zip(combs, axes) needs axes to be iterable.
plot_scatter(columns) ==
    LET combs == combinations2(columns)
        axes == subplots(1, Len(combs))
    IN CASE axes = "ValueError" -> [status |-> "raised", plots |-> <<>>]
         [] axes = "Axes" -> [status |-> "raised", plots |-> <<>>]
         [] OTHER -> [status |-> "returned",
                      plots |-> [k \in DOMAIN combs |->
                                   [x |-> combs[k][1], y |-> combs[k][2], ax |-> k]]]

ScatterColumns == {"GHI", "DNI", "DHI"}

InitPlotScatter ==
    /\ prog = "plot_scatter"
    /\ pc = "call"
    /\ args \in [columns : SeqsUpTo(ScatterColumns, MaxScatter)]
    /\ ret = <<>>
    /\ fs = NoDirectory
    /\ NoDashboard

PlotScatter ==
    /\ prog = "plot_scatter" /\ pc = "call"
    /\ ret' = plot_scatter(args.columns)
    /\ pc' = IF ret'.status = "returned" THEN "returned" ELSE "raised"
    /\ UNCHANGED <<prog, args, fs, dashVars>>

\* data[f"{column}_zscore"] = (data[column] - mean) / std, line 242.
write_zscore(data, column) ==
    SetColumn(data, zscore_name(column), z_scores(data.val[column]))

\* The Z-score columns of all the listed columns, written in list order.
RECURSIVE write_zscores(_, _)
write_zscores(data, columns) ==
    IF columns = <<>> THEN data
    ELSE write_zscores(write_zscore(data, Head(columns)), Tail(columns))

\* calculate_and_plot_z_scores, lines 226-251.  The figure is made first;
\* then, column by column, every dataset zip pairs with a title gets its
\* Z-score column and a histogram on axes[i, j], or on axes[j] for a single
\* column.  The axis is looked up after the column is written, and the
\* lookup raises when the figure has one dataset only: axes is then a
\* one-dimensional array (IndexError on axes[i, j]) or a single Axes
\* (TypeError on axes[j]).
calculate_and_plot_z_scores(frames, columns, titles) ==
    LET axes == subplots(Len(columns), Len(frames))
        paired == Min2(Len(frames), Len(titles))
    IN CASE axes = "ValueError" -> [status |-> "raised", datasets |-> frames]
         [] axes # "ValueError" /\ paired = 0 ->
              [status |-> "returned", datasets |-> frames]
         [] axes \in {"Axes", "array1d"} /\ paired > 0 /\ Len(frames) = 1 ->
              [status |-> "raised",
               datasets |-> <<write_zscore(frames[1], columns[1])>>]
         [] OTHER ->
              [status |-> "returned",
               datasets |-> [j \in DOMAIN frames |->
                               IF j <= paired
                               THEN write_zscores(frames[j], columns)
                               ELSE frames[j]]]

InitZScores ==
    /\ prog = "calculate_and_plot_z_scores"
    /\ pc = "call"
    /\ args \in [datasets : SeqsUpTo(NotebookFrames, MaxDatasets),
                 columns : SeqsUpTo(NotebookColumns, MaxCols),
                 titles : {[k \in 1..n |-> "title"] : n \in 0..MaxDatasets}]
    /\ ret = <<>>
    /\ fs = NoDirectory
    /\ NoDashboard

ZScores ==
    /\ prog = "calculate_and_plot_z_scores" /\ pc = "call"
    /\ ret' = calculate_and_plot_z_scores(args.datasets, args.columns, args.titles)
    /\ pc' = IF ret'.status = "returned" THEN "returned" ELSE "raised"
    /\ UNCHANGED <<prog, args, fs, dashVars>>

\* manage_data, lines 10-48.
expected_files ==
    {"benin-malanville.csv", "sierraleone-bumbuna.csv", "togo-dapaong_qc.csv"}

\* What the archive behind file_url may hold: the code does not look.  A
\* member below a folder of the archive lands below that folder.
ArchiveMembers == SUBSET (expected_files \cup {"data/benin-malanville.csv"})

\* The directory after lines 41-48 when the download succeeded: data.zip is
\* written, its members are extracted beside it, data.zip is removed.
extract_and_remove(files, members) ==
    ((files \cup {"data.zip"}) \cup members) \ {"data.zip"}

InitManageData ==
    /\ prog = "manage_data"
    /\ pc = "call"
    /\ args = [data_path |-> "data"]
    /\ ret = [calls |-> 0, status |-> "none", downloaded |-> FALSE, before |-> NoDirectory]
    /\ fs \in {NoDirectory} \cup
              {Directory(files) : files \in SUBSET (expected_files \cup {"notes.txt"})}
    /\ NoDashboard

\* One call of manage_data.  gdown.download may fail; then no data.zip is
\* there and opening it raises.
ManageData ==
    /\ prog = "manage_data" /\ ret.calls < MaxCalls
    /\ IF expected_files \subseteq fs.files
       THEN /\ fs' = Directory(fs.files)
            /\ ret' = [calls |-> ret.calls + 1, status |-> "returned",
                       downloaded |-> FALSE, before |-> fs]
       ELSE \E fetched \in BOOLEAN, members \in ArchiveMembers :
              IF fetched
              THEN /\ fs' = Directory(extract_and_remove(fs.files, members))
                   /\ ret' = [calls |-> ret.calls + 1, status |-> "returned",
                              downloaded |-> TRUE, before |-> fs]
              ELSE /\ fs' = Directory(fs.files)
                   /\ ret' = [calls |-> ret.calls + 1, status |-> "raised",
                              downloaded |-> FALSE, before |-> fs]
    /\ pc' = ret'.status
    /\ UNCHANGED <<prog, args, dashVars>>

Init ==
    \/ InitDashboard
    \/ InitClipOutliers
    \/ InitPlotScatter
    \/ InitZScores
    \/ InitManageData

Next ==
    \/ NextDashboard
    \/ ClipOutliers
    \/ PlotScatter
    \/ ZScores
    \/ ManageData

Spec == Init /\ [][Next]_vars

(***************************************************************************)
(* Properties.                                                             *)
(***************************************************************************)

Distinct(list) == \A a, b \in DOMAIN list : a # b => list[a] # list[b]

SetMax(S) == CHOOSE k \in S : \A j \in S : j <= k

\* The cell is the bounded clamp of the cell it replaces.
Clamped(before, after, lo, hi) ==
    before.t = "num" =>
        /\ after = Num(IF before.v < lo THEN lo ELSE IF before.v > hi THEN hi ELSE before.v)
        /\ lo <= after.v /\ after.v <= hi

\* Every column listed in the call holds the clamp, by its own range, of
\* what it held before the call.
ListedColumnsClamped ==
    \A k \in DOMAIN args.columns :
       \A row \in DOMAIN args.data.val[args.columns[k]] :
          Clamped(args.data.val[args.columns[k]][row],
                  ret.data.val[args.columns[k]][row],
                  args.valid_range[k][1], args.valid_range[k][2])

ClipCallInScope ==
    /\ prog = "clip_outliers" /\ pc = "returned"
    /\ Len(args.columns) = Len(args.valid_range)
    /\ \A k \in DOMAIN args.valid_range : args.valid_range[k][1] <= args.valid_range[k][2]

\* The frame the preview of this run showed: the dataset as it was selected.
PreviewFrame ==
    out[CHOOSE k \in DOMAIN out : out[k].kind = "preview"].data

\* Right after a pressed 'Clip Outliers', with min <= max, the selected
\* column holds the clamp of what it held when the dataset was selected.
ButtonClamped ==
    (/\ prog = "dashboard" /\ pc = After("clip") /\ pressed
     /\ min_val <= max_val)
    => \A row \in DOMAIN selected_dataset.val[selected_column] :
          Clamped(PreviewFrame.val[selected_column][row],
                  selected_dataset.val[selected_column][row], min_val, max_val)

\* C1 as stated: after clip_outliers with lists of equal length and
\* min <= max in every range, and after the dashboard's button, every present
\* value of each listed column is the clamp of the value by the column's range.
C1_AsStated ==
    /\ ClipCallInScope => ListedColumnsClamped
    /\ ButtonClamped

\* C1 amended: the same, for lists that name no column twice.
C1_ClampDistinctColumns ==
    /\ (ClipCallInScope /\ Distinct(args.columns)) => ListedColumnsClamped
    /\ ButtonClamped

\* A call on two different columns that changed the data.
C1_Witness ==
    /\ ClipCallInScope
    /\ Len(args.columns) = 2
    /\ Distinct(args.columns)
    /\ ret.data.val["GHI"] # args.data.val["GHI"]
    /\ ret.data.val["WS"] # args.data.val["WS"]

\* C5 as stated: once manage_data has returned, the directory exists and
\* holds the three expected files and no data.zip; the archive was fetched
\* only if a file was missing; a call with all three present changed nothing.
C5_AsStated ==
    (prog = "manage_data" /\ ret.status = "returned") =>
        /\ fs.exists
        /\ expected_files \subseteq fs.files
        /\ "data.zip" \notin fs.files
        /\ ret.downloaded => ~(expected_files \subseteq ret.before.files)
        /\ (ret.before.exists /\ expected_files \subseteq ret.before.files)
              => (~ret.downloaded /\ fs = ret.before)

\* The part of C5 the code guarantees whatever the archive holds.
C5_WithoutArchive ==
    (prog = "manage_data" /\ ret.status = "returned") =>
        /\ fs.exists
        /\ "data.zip" \notin fs.files
        /\ ret.before.files \subseteq fs.files
        /\ ret.downloaded <=> ~(expected_files \subseteq ret.before.files)
        /\ (ret.before.exists /\ expected_files \subseteq ret.before.files)
              => (~ret.downloaded /\ fs = ret.before)

\* C7 as stated: for two or more distinct columns plot_scatter draws one
\* scatter plot per unordered pair, n*(n-1)/2 in all, each on an axis of its
\* own with x the first and y the second column of the pair.
C7_AsStated ==
    (/\ prog = "plot_scatter" /\ pc \in {"returned", "raised"}
     /\ Len(args.columns) >= 2 /\ Distinct(args.columns))
    => /\ ret.status = "returned"
       /\ 2 * Len(ret.plots) = Len(args.columns) * (Len(args.columns) - 1)
       /\ \A a, b \in DOMAIN args.columns :
             a < b => Cardinality({k \in DOMAIN ret.plots :
                                      {ret.plots[k].x, ret.plots[k].y}
                                        = {args.columns[a], args.columns[b]}}) = 1
       /\ \A a, b \in DOMAIN args.columns :
             a < b => \E k \in DOMAIN ret.plots :
                         ret.plots[k].x = args.columns[a] /\ ret.plots[k].y = args.columns[b]
       /\ \A k, m \in DOMAIN ret.plots : k # m => ret.plots[k].ax # ret.plots[m].ax

\* What does hold: the same for three or more distinct columns.
C7_ThreeOrMore ==
    (/\ prog = "plot_scatter" /\ pc \in {"returned", "raised"}
     /\ Len(args.columns) >= 3 /\ Distinct(args.columns))
    => /\ ret.status = "returned"
       /\ 2 * Len(ret.plots) = Len(args.columns) * (Len(args.columns) - 1)
       /\ \A a, b \in DOMAIN args.columns :
             a < b => \E k \in DOMAIN ret.plots :
                         ret.plots[k].x = args.columns[a] /\ ret.plots[k].y = args.columns[b]

\* Positions in the uploader of the files that parse, and of those that
\* parse under the given name.
ParsedUploads == {k \in DOMAIN uploaded_files : read_csv(uploaded_files[k]).ok}
ParsedAs(name) == {k \in ParsedUploads : FileName(uploaded_files[k]) = name}

\* What a fresh parse of the upload selectable under the name gives.
FreshlyParsed(name) == read_csv(uploaded_files[SetMax(ParsedAs(name))]).data

LoopOver == prog = "dashboard" /\ pc = "load" /\ i = Len(uploaded_files)

\* Each uploaded file is answered, in upload order, by a success message if
\* it parses and by an error message if it does not: no file stops the loop.
EveryFileReported ==
    /\ Len(out) = Len(uploaded_files)
    /\ \A k \in DOMAIN uploaded_files :
          out[k] = Element(IF read_csv(uploaded_files[k]).ok THEN "success" ELSE "error",
                           FileName(uploaded_files[k]), EmptyFrame)

\* C2 as stated: after the upload loop every file was reported, as loaded or
\* as an error, and the selectable datasets are exactly the files that
\* parsed, each under its file name.
C2_AsStated ==
    LoopOver =>
        /\ EveryFileReported
        /\ \A k \in DOMAIN uploaded_files :
              read_csv(uploaded_files[k]).ok
                <=> /\ FileName(uploaded_files[k]) \in Range(datasets.keys)
                    /\ datasets.at[FileName(uploaded_files[k])] = read_csv(uploaded_files[k]).data
        /\ \A name \in Range(datasets.keys) : ParsedAs(name) # {}

\* What does hold of the loop: every file is reported, and the selectable
\* names are exactly the names of the files that parsed, each bound to the
\* last upload that parsed under it.
C2_ByName ==
    LoopOver =>
        /\ EveryFileReported
        /\ Range(datasets.keys) = {FileName(uploaded_files[k]) : k \in ParsedUploads}
        /\ \A name \in Range(datasets.keys) : datasets.at[name] = FreshlyParsed(name)

\* C9 as stated: the dataset selectbox offers as many entries as uploaded
\* files parsed, also when uploads share a file name.
C9_AsStated ==
    LoopOver => Len(datasets.keys) = Cardinality(ParsedUploads)

PromptShown == \E k \in DOMAIN out : out[k].kind = "info"

AnalysisKinds ==
    {"preview", "describe", "missing", "boxplot", "clipped", "describe_clipped",
     "timeseries", "heatmap", "windrose", "histogram", "scatter", "zscore", "bubble"}

AnalysisRendered == \E k \in DOMAIN out : out[k].kind \in AnalysisKinds

RunOver == prog = "dashboard" /\ pc \in {"done", "crashed"}

\* Analysis is rendered only for a selected dataset that an uploaded file
\* parsed into; without uploads the prompt is all that is shown.
OnlyForSelected ==
    /\ (prog = "dashboard" /\ AnalysisRendered) =>
          /\ selected_dataset_name \in Range(datasets.keys)
          /\ ParsedAs(selected_dataset_name) # {}
    /\ (RunOver /\ uploaded_files = <<>>) =>
          out = <<Element("info", "Please upload at least one CSV file to proceed.", EmptyFrame)>>
    /\ (prog = "dashboard" /\ PromptShown) => uploaded_files = <<>>

\* C8 as stated: analysis only for an uploaded, parsed and selected dataset,
\* the prompt alone without uploads, and in every run exactly one of the two.
C8_AsStated ==
    /\ OnlyForSelected
    /\ RunOver => (PromptShown /\ ~AnalysisRendered) \/ (~PromptShown /\ AnalysisRendered)

\* C8 amended: never both; exactly one of the two unless files were uploaded
\* and none of them parsed, and then neither.
C8_ExactlyOneUnlessNoneParsed ==
    /\ OnlyForSelected
    /\ (prog = "dashboard") => ~(PromptShown /\ AnalysisRendered)
    /\ RunOver => ((PromptShown \/ AnalysisRendered)
                     <=> (uploaded_files = <<>> \/ ParsedUploads # {}))

\* A finished run over uploads none of which parsed: errors only.
C8_Witness ==
    /\ RunOver
    /\ uploaded_files # <<>>
    /\ ParsedUploads = {}
    /\ ~PromptShown /\ ~AnalysisRendered
    /\ \E k \in DOMAIN out : out[k].kind = "error"

\* The order in which a run renders: upload messages, then the sections.
RenderOrder ==
    <<"success", "preview", "describe", "missing", "boxplot", "clipped",
      "describe_clipped", "timeseries", "heatmap", "windrose", "histogram",
      "scatter", "zscore", "bubble", "exception">>

Place(kind) ==
    IF kind \in {"success", "error"} THEN 1
    ELSE CHOOSE n \in DOMAIN RenderOrder : RenderOrder[n] = kind

BeforeClipKinds == {"preview", "describe", "missing", "boxplot"}
AfterClipKinds ==
    {"describe_clipped", "timeseries", "heatmap", "windrose", "histogram",
     "scatter", "bubble"}

\* The column the button clipped, as it must read after the clip.
ClippedColumn ==
    clip(FreshlyParsed(selected_dataset_name).val[selected_column], min_val, max_val)

\* C3: a run renders in the fixed order upload messages, preview, summary,
\* missing values, box plot, clip, time series, heatmap, wind rose, histogram,
\* scatter, Z-scores, bubble chart, no section twice; and in a run where the
\* button was pressed, what was rendered before the clip shows the unclipped
\* data and every chart after it shows the clipped column.
C3_LinearPipeline ==
    prog = "dashboard" =>
        /\ \A a, b \in DOMAIN out :
              a < b => \/ Place(out[a].kind) < Place(out[b].kind)
                       \/ Place(out[a].kind) = 1 /\ Place(out[b].kind) = 1
        /\ pressed =>
              \A k \in DOMAIN out :
                 /\ out[k].kind \in BeforeClipKinds =>
                       out[k].data = FreshlyParsed(selected_dataset_name)
                 /\ out[k].kind \in AfterClipKinds =>
                       out[k].data.val[selected_column]
                          \in {ClippedColumn, to_datetime(ClippedColumn)}
                 /\ (out[k].kind = "zscore" /\ out[k].name = selected_column) =>
                       out[k].data.val[zscore_name(selected_column)] = z_scores(ClippedColumn)

\* A finished run in which the button changed the data and the last chart
\* was drawn.
C3_Witness ==
    /\ prog = "dashboard" /\ pc = "done" /\ pressed
    /\ <<run, selected_dataset_name>> \in clip_log
    /\ \E k \in DOMAIN out : out[k].kind = "bubble"
    /\ \E k \in DOMAIN out : out[k].kind = "timeseries"

\* The frame with the timestamp conversion of this run applied to it.
Converted(data) ==
    IF timestamp_column \in Range(data.cols)
    THEN SetColumn(data, timestamp_column, to_datetime(data.val[timestamp_column]))
    ELSE data

\* C4: every run builds the datasets from the uploaded files alone, so at
\* the end of a run where the button is not pressed the selected dataset is
\* the freshly parsed file, up to that run's timestamp conversion, whatever
\* earlier runs clipped; the other datasets are the freshly parsed files.
C4_NoCarryOver ==
    (prog = "dashboard" /\ pc # "start" /\ uploaded_files # <<>>) =>
        /\ Range(datasets.keys) \subseteq {FileName(uploaded_files[k]) : k \in ParsedUploads}
        /\ (pc # "load" \/ i = Len(uploaded_files)) =>
              \A name \in Range(datasets.keys) :
                 name # selected_dataset_name => datasets.at[name] = FreshlyParsed(name)
        /\ (RunOver /\ Truthy(selected_dataset_name) /\ ~pressed) =>
              selected_dataset \in {FreshlyParsed(selected_dataset_name),
                                    Converted(FreshlyParsed(selected_dataset_name))}

\* A later run without the button, on a dataset an earlier run had clipped.
C4_Witness ==
    /\ prog = "dashboard" /\ pc = "done" /\ ~pressed
    /\ run > 1
    /\ \E r \in 1..(run - 1) : <<r, selected_dataset_name>> \in clip_log
    /\ Truthy(selected_column)

\* z is (x - mean) / std of the series, std taken with n - 1: its sign is
\* that of x - mean and z^2 * std^2 = (x - mean)^2, written without division
\* with n = number of present values and S = their sum.
IsZScoreOf(z, series, x) ==
    LET present == {k \in DOMAIN series : series[k].t \in {"num", "dt"}}
        n == Cardinality(present)
        S == SeqSum([k \in DOMAIN series |-> IF k \in present THEN series[k].v ELSE 0])
        SS == SeqSum([k \in DOMAIN series |->
                        IF k \in present THEN (n * series[k].v - S) * (n * series[k].v - S) ELSE 0])
    IN /\ z.t = "zsq"
       /\ z.d > 0
       /\ Sign(z.v) = Sign(n * x - S)
       /\ Abs(z.v) * SS = (n * x - S) * (n * x - S) * (n - 1) * z.d

\* At least two present values, not all equal: std is a positive number.
HasSpread(series) ==
    \E a, b \in DOMAIN series :
       /\ series[a].t \in {"num", "dt"} /\ series[b].t \in {"num", "dt"}
       /\ series[a].v # series[b].v

\* The Z-score column is defined, and right, for every present value.
ZColumnDefined(zcol, series) ==
    \A row \in DOMAIN series :
       series[row].t \in {"num", "dt"} => IsZScoreOf(zcol[row], series, series[row].v)

\* The Z-score column is right where std is a positive number, and NaN
\* throughout where it is not; a missing value has a NaN Z-score.
ZColumnRight(zcol, series) ==
    /\ DOMAIN zcol = DOMAIN series
    /\ \A row \in DOMAIN series :
          IF HasSpread(series) /\ series[row].t \in {"num", "dt"}
          THEN IsZScoreOf(zcol[row], series, series[row].v)
          ELSE zcol[row] = NaN

\* P holds of every Z-score column a call of the helper that ended in one of
\* `ends` wrote, against the column of the same dataset it was computed from,
\* and of every Z-score histogram of the dashboard, against the column of the
\* selected dataset.
EveryZColumn(P(_, _), ends) ==
    /\ (prog = "calculate_and_plot_z_scores" /\ pc \in ends) =>
          \A j \in DOMAIN ret.datasets : \A c \in Range(args.columns) :
             zscore_name(c) \in Range(ret.datasets[j].cols) =>
                P(ret.datasets[j].val[zscore_name(c)], args.datasets[j].val[c])
    /\ prog = "dashboard" =>
          \A k \in DOMAIN out :
             out[k].kind = "zscore" =>
                P(out[k].data.val[zscore_name(out[k].name)], selected_dataset.val[out[k].name])

====
